---- MODULE Spec2Model ----
(***************************************************************************)
(* The navigation engine of noice (src/noice.c): the browse() loop, the    *)
(* populate() pipeline (canopendir, setfilter, dentfill, qsort with        *)
(* entrycmp, dentfind) and the path helpers (mkpath, xdirname).            *)
(*                                                                         *)
(* A C string is a sequence of one-character strings, so that strcmp,      *)
(* strlen, concatenation and the scans of mkpath/dirname/regexec are       *)
(* computed on the characters.  NULL is the one sequence that is no string *)
(* of characters.  Indices of dents are 0-based as in the code; the entry  *)
(* at C index i is dents[i + 1].                                           *)
(***************************************************************************)
EXTENDS Integers, Sequences, FiniteSets, TLC

(* ------------------------------------------------------------------ *)
(* Bounds of the model                                                *)
(* ------------------------------------------------------------------ *)

\* longest in-progress string of the filter-as-you-type mode
MaxType == 2
\* longest current path (in characters) the change-directory prompt may build
MaxPath == 5

(* ------------------------------------------------------------------ *)
(* C strings                                                          *)
(* ------------------------------------------------------------------ *)

NULL == <<"NULL">>

\* byte values of the characters used (ASCII)
Ord(c) ==
    CASE c = "(" -> 40
      [] c = "." -> 46
      [] c = "/" -> 47
      [] c = "^" -> 94
      [] c = "a" -> 97
      [] c = "b" -> 98
      [] OTHER -> 0

RECURSIVE strcmp(_, _)
\* strcmp(3): the sign of the first differing byte (0 past the end)
strcmp(s, t) ==
    IF s = <<>> /\ t = <<>> THEN 0
    ELSE IF s = <<>> THEN -1
    ELSE IF t = <<>> THEN 1
    ELSE IF Ord(Head(s)) < Ord(Head(t)) THEN -1
    ELSE IF Ord(Head(s)) > Ord(Head(t)) THEN 1
    ELSE strcmp(Tail(s), Tail(t))

\* strchr(s, c) != NULL
strchr(s, c) == \E i \in 1..Len(s) : s[i] = c

RECURSIVE StripSlashes(_)
\* the loop of redraw() and the first step of dirname(3): drop trailing
\* slashes, never the first character
StripSlashes(s) ==
    IF Len(s) > 1 /\ s[Len(s)] = "/" THEN StripSlashes(SubSeq(s, 1, Len(s) - 1))
    ELSE s

RECURSIVE StripLast(_)
\* drop the trailing non-slash characters (the last path component)
StripLast(s) ==
    IF s # <<>> /\ s[Len(s)] # "/" THEN StripLast(SubSeq(s, 1, Len(s) - 1))
    ELSE s

\* xdirname(): dirname(3) of a copy of the path
xdirname(p) ==
    LET q == StripSlashes(p) IN
    IF ~strchr(q, "/") THEN <<".">>
    ELSE StripSlashes(StripLast(q))

\* mkpath(): an absolute name overrides dir; the root takes no second slash
mkpath(dir, name) ==
    IF name[1] = "/" THEN name
    ELSE IF dir = <<"/">> THEN <<"/">> \o name
    ELSE dir \o <<"/">> \o name

(* ------------------------------------------------------------------ *)
(* Regular expressions: setfilter() and visible()                     *)
(* ------------------------------------------------------------------ *)
(* The POSIX extended expressions over the characters of the model:   *)
(* ordinary characters, "." (any character), "^" (start of the name), *)
(* the bracket expression "[^.]" of the default filter, and "(",      *)
(* which nothing closes.  A compiled expression is its sequence of    *)
(* tokens; regcomp fails on an unclosed "(" or "[".                   *)

\* the default filter of an unprivileged run and the show-everything filter
IFilterUser == <<"^", "[", "^", ".", "]">>
IFilterAll == <<".">>

RECURSIVE Tokens(_)
\* the tokens of a pattern, or <<"ERR">> as its first token when regcomp fails
Tokens(p) ==
    IF p = <<>> THEN <<>>
    ELSE IF Head(p) = "(" THEN <<"ERR">>
    ELSE IF Head(p) = "[" THEN
        IF Len(p) >= 4 /\ SubSeq(p, 1, 4) = <<"[", "^", ".", "]">>
        THEN LET r == Tokens(SubSeq(p, 5, Len(p))) IN
             IF r # <<>> /\ Head(r) = "ERR" THEN r ELSE <<"NOTDOT">> \o r
        ELSE <<"ERR">>
    ELSE LET r == Tokens(Tail(p)) IN
         IF r # <<>> /\ Head(r) = "ERR" THEN r ELSE <<Head(p)>> \o r

\* setfilter(): regcomp's result, 0 on success
setfilter(filter) ==
    LET r == Tokens(filter) IN IF r # <<>> /\ Head(r) = "ERR" THEN 1 ELSE 0

RECURSIVE MatchAt(_, _, _)
\* the tokens match the name from position pos on
MatchAt(toks, file, pos) ==
    IF toks = <<>> THEN TRUE
    ELSE IF Head(toks) = "^" THEN pos = 1 /\ MatchAt(Tail(toks), file, pos)
    ELSE /\ pos <= Len(file)
         /\ CASE Head(toks) = "." -> TRUE
              [] Head(toks) = "NOTDOT" -> file[pos] # "."
              [] OTHER -> file[pos] = Head(toks)
         /\ MatchAt(Tail(toks), file, pos + 1)

\* visible(): regexec of the compiled filter finds a match somewhere in the name
visible(filter, file) ==
    \E pos \in 1..(Len(file) + 1) : MatchAt(Tokens(filter), file, pos)

(* ------------------------------------------------------------------ *)
(* The filesystem the browser runs on                                 *)
(* ------------------------------------------------------------------ *)
(* A fixed tree of nodes, named by their canonical absolute paths.    *)
(* Two things change while the browser runs: directories lose and     *)
(* regain read permission (unreadable), and the directory /a/a is     *)
(* removed and created again (gone).                                  *)

VARIABLES unreadable, gone

Root == <<"/">>
\* the working directory of the process, against which relative paths resolve
Cwd == Root

\* modification times (seconds since the epoch): two far apart, two equal
TimeOld == -400000000
TimeNow == 1790000000
TimeTie == 1000

Tree ==
    { [p |-> <<"/", "a">>,           kind |-> "dir",  t |-> TimeNow],
      [p |-> <<"/", "b">>,           kind |-> "reg",  t |-> TimeOld],
      [p |-> <<"/", ".", "a">>,      kind |-> "dir",  t |-> TimeTie],
      [p |-> <<"/", "a", "/", "a">>, kind |-> "dir",  t |-> TimeTie],
      [p |-> <<"/", "a", "/", "b">>, kind |-> "reg",  t |-> TimeTie],
      [p |-> <<"/", ".", "a", "/", "b">>, kind |-> "fifo", t |-> TimeNow] }

\* the directories whose read permission changes, and the nodes that come and go
ChmodDirs == { <<"/", "a">> }
Volatile == { <<"/", "a", "/", "a">> }

Node(q) == CHOOSE nd \in Tree : nd.p = q
Exists(q) == q = Root \/ (q \notin gone /\ \E nd \in Tree : nd.p = q)
Kind(q) == IF q = Root THEN "dir" ELSE Node(q).kind
MTime(q) == IF q = Root THEN TimeTie ELSE Node(q).t

RECURSIVE Comp(_)
\* the first component of a path: its characters up to the next slash
Comp(s) == IF s = <<>> \/ Head(s) = "/" THEN <<>> ELSE <<Head(s)>> \o Comp(Tail(s))

\* one step of path resolution from directory q
Lookup(q, c) ==
    IF c = <<".">> THEN q
    ELSE IF c = <<".", ".">> THEN xdirname(q)
    ELSE IF Exists(mkpath(q, c)) THEN mkpath(q, c)
    ELSE NULL

RECURSIVE Walk(_, _)
\* the node the rest s of a path names from node q, NULL when there is none
Walk(q, s) ==
    IF q = NULL THEN NULL
    ELSE IF s = <<>> THEN q
    ELSE IF Kind(q) # "dir" THEN NULL
    ELSE IF Head(s) = "/" THEN Walk(q, Tail(s))
    ELSE Walk(Lookup(q, Comp(s)), SubSeq(s, Len(Comp(s)) + 1, Len(s)))

\* the node a path string names
Resolve(s) == IF s = <<>> THEN NULL ELSE Walk(IF Head(s) = "/" THEN Root ELSE Cwd, s)

\* opendir(3) succeeds: a directory that exists and may be read
canopendir(s) ==
    LET q == Resolve(s) IN q # NULL /\ Kind(q) = "dir" /\ q \notin unreadable

\* open(2) with O_RDONLY | O_NONBLOCK succeeds
CanOpen(s) ==
    LET q == Resolve(s) IN q # NULL /\ (Kind(q) = "dir" => q \notin unreadable)

RECURSIVE Base(_)
\* the last component of a canonical path
Base(s) == IF ~strchr(s, "/") THEN s ELSE Base(Tail(s))

\* readdir(3): the names in directory q, self and parent included
readdir(q) ==
    { <<".">>, <<".", ".">> }
        \cup { Base(nd.p) : nd \in { x \in Tree : Exists(x.p) /\ xdirname(x.p) = q } }

(* ------------------------------------------------------------------ *)
(* Listing and sorting: dentfill(), entrycmp(), qsort(), dentfind()   *)
(* ------------------------------------------------------------------ *)

\* dentfill(): one entry per name of the directory that is neither self nor
\* parent and that the filter accepts, with the lstat of its full path
dentfill(dir, filter) ==
    { [name |-> nm, mode |-> Kind(Resolve(mkpath(dir, nm))),
       t |-> MTime(Resolve(mkpath(dir, nm)))] :
        nm \in { x \in readdir(Resolve(dir)) :
                    /\ x # <<".">>
                    /\ x # <<".", ".">>
                    /\ visible(filter, x) } }

\* the conversion of the 64-bit difference x - y to int: its low 32 bits,
\* taken as a signed number (computed on 16-bit halves)
DiffAsInt(x, y) ==
    LET xl == x % 65536
        xh == x \div 65536
        yl == y % 65536
        yh == y \div 65536
        lo == (xl - yl) % 65536
        borrow == IF xl < yl THEN 1 ELSE 0
        hi == (xh - yh - borrow) % 65536
    IN  (IF hi >= 32768 THEN hi - 65536 ELSE hi) * 65536 + lo

\* entrycmp(): b->t - a->t as an int under time order, strcmp of the names otherwise
entrycmp(a, b, mtime) ==
    IF mtime THEN DiffAsInt(b.t, a.t) ELSE strcmp(a.name, b.name)

\* the orders of the entries S
Perms(S) ==
    { s \in [1..Cardinality(S) -> S] : \A i, j \in 1..Cardinality(S) : i # j => s[i] # s[j] }

\* qsort(3): an order no pair of which the comparator puts the other way round;
\* any order at all when the comparator admits none (a cycle)
qsort(S, mtime) ==
    LET ok == { s \in Perms(S) :
                  \A i, j \in 1..Cardinality(S) : i < j => entrycmp(s[i], s[j], mtime) <= 0 }
    IN  IF ok # {} THEN ok ELSE Perms(S)

\* dentfind() returning the position counted from 1
dentfindFromOne(ds, cwd, target) ==
    IF target = NULL THEN 0
    ELSE IF \E i \in 1..Len(ds) : mkpath(cwd, ds[i].name) = target
    THEN CHOOSE i \in 1..Len(ds) :
            /\ mkpath(cwd, ds[i].name) = target
            /\ \A j \in 1..(i - 1) : mkpath(cwd, ds[j].name) # target
    ELSE 0

\* dentfind(): the first position whose joined path is the one looked for, or 0
dentfind(ds, cwd, target) ==
    IF target = NULL THEN 0
    ELSE IF \E i \in 1..Len(ds) : mkpath(cwd, ds[i].name) = target
    THEN (CHOOSE i \in 1..Len(ds) :
            /\ mkpath(cwd, ds[i].name) = target
            /\ \A j \in 1..(i - 1) : mkpath(cwd, ds[j].name) # target) - 1
    ELSE 0

(* ------------------------------------------------------------------ *)
(* The state of browse()                                              *)
(* ------------------------------------------------------------------ *)

VARIABLES
    path,       \* char *path: the current directory
    oldpath,    \* char *oldpath: the history slot, NULL when absent
    fltr,       \* char *fltr: the active filter
    dents,      \* struct entry *dents: the Entry List
    cur,        \* int cur: the cursor, a C index into dents
    mtimeorder, \* int mtimeorder: time order instead of name order
    nowtyping,  \* int nowtyping: the filter-as-you-type mode is open
    tmp,        \* char *tmp: the in-progress string of that mode
    idle,       \* int idle: consecutive input timeouts
    pc,         \* where the process is: "begin", "loop", "exit", "crash"
    ifilter,    \* the default filter main() hands to browse()
    last,       \* history: the last action, its input and its outcome
    rt,         \* history: a descent and the ascent that directly follows it
    quiet       \* history: the input timeouts in a row since the last key
                \* or the last run of idlecmd

fsvars == <<unreadable, gone>>
cfgvars == <<ifilter>>
vars == <<path, oldpath, fltr, dents, cur, mtimeorder, nowtyping, tmp, idle, pc,
          ifilter, unreadable, gone, last, rt, quiet>>

\* int n: the length of the Entry List
n == Len(dents)

\* the inputs of the model: the initial paths (absolute, ".", and a relative
\* name without a slash), the values of HOME, the heights of the terminal (at
\* least the 4 rows redraw() keeps for the frame), the lines typed at the
\* prompts and the characters typed in the filter-as-you-type mode
InitPaths == { <<"/">>, <<".">>, <<".", "a">> }
Homes == { NULL, <<"/", "a">> }
Heights == { 4, 8 }
CdInputs == { NULL, <<"/">>, <<"a">>, <<"b">> }
FilterInputs == { NULL, <<"b">>, <<"(">> }
TypeChars == { "a", "(" }

\* the history variable names the step just taken
Note(act, arg, res) == last' = [act |-> act, arg |-> arg, res |-> res]

NoRt == [stage |-> 0, P |-> NULL, D |-> NULL]

\* MIN(x, y)
MIN(x, y) == IF x < y THEN x ELSE y

\* the name of the entry under the cursor: dents[cur].name
SelName == dents[cur + 1].name

Init ==
    /\ unreadable = {}
    /\ gone = {}
    /\ path \in InitPaths
    /\ oldpath = NULL
    /\ ifilter = IFilterUser
    /\ fltr = ifilter
    /\ dents = <<>>
    /\ cur = 0
    /\ mtimeorder \in BOOLEAN
    /\ nowtyping = FALSE
    /\ tmp = NULL
    /\ idle = 0
    /\ pc = "begin"
    /\ last = [act |-> "init", arg |-> NULL, res |-> "none"]
    /\ rt = NoRt
    /\ quiet = 0

(* ------------------------------------------------------------------ *)
(* populate() and the label begin                                     *)
(* ------------------------------------------------------------------ *)

\* populate() returns 0: the directory opens and the filter compiles
CanPopulate(p, f) == canopendir(p) /\ setfilter(f) = 0

\* populate() with path p, filter f, history o and order m, then what follows
\* the label begin: on success the list is refilled and sorted, the cursor
\* found from the history, the history cleared, and redraw() strips the
\* trailing slashes of the path; on failure everything populate() owns stays,
\* and redraw() runs only in typing mode
Begin(p, f, o, m, typing) ==
    /\ fltr' = f
    /\ mtimeorder' = m
    /\ IF CanPopulate(p, f)
       THEN \E s \in qsort(dentfill(p, f), m) :
                /\ dents' = s
                /\ cur' = dentfind(s, p, o)
                /\ oldpath' = NULL
                /\ path' = StripSlashes(p)
       ELSE /\ dents' = dents
            /\ cur' = cur
            /\ oldpath' = o
            /\ path' = IF typing THEN StripSlashes(p) ELSE p

\* the outcome of Begin, for the history variable
Outcome(p, f) == IF CanPopulate(p, f) THEN "populated" ELSE "popfail"

\* goto nochange with the idle counter left as it was
NoChangeIdleKept ==
    /\ quiet' = 0
    /\ UNCHANGED <<path, oldpath, fltr, dents, cur, mtimeorder, nowtyping, tmp, pc, idle>>

\* goto nochange: nothing but the idle counter, which nextsel() reset
NoChange ==
    /\ idle' = 0 /\ quiet' = 0
    /\ UNCHANGED <<path, oldpath, fltr, dents, cur, mtimeorder, nowtyping, tmp, pc>>

\* browse() up to its first wait for input
BrowseStart ==
    /\ pc = "begin"
    /\ pc' = "loop"
    /\ Begin(path, fltr, oldpath, mtimeorder, FALSE)
    /\ Note("start", NULL, Outcome(path, fltr))
    /\ rt' = NoRt
    /\ UNCHANGED <<nowtyping, tmp, idle, quiet, cfgvars, fsvars>>

\* the loop waits in nextsel() for a key of the normal mode
Waiting == pc = "loop" /\ ~nowtyping

\* config.h: the idle timeout (in input timeouts) after which idlecmd runs
idletimeout == 2

\* config.h: the associations, patterns matched against the path to open
assocs == << [regex |-> <<"a", "/">>, bin |-> <<"a">>] >>

\* openwith(): the program of the first association that matches, or NULL
openwith(file) ==
    IF \E i \in 1..Len(assocs) : setfilter(assocs[i].regex) = 0 /\ visible(assocs[i].regex, file)
    THEN assocs[CHOOSE i \in 1..Len(assocs) :
                  /\ setfilter(assocs[i].regex) = 0 /\ visible(assocs[i].regex, file)
                  /\ \A j \in 1..(i - 1) :
                        ~(setfilter(assocs[j].regex) = 0 /\ visible(assocs[j].regex, file))].bin
    ELSE NULL

\* "Save current": the history an action leaves before it repopulates
SaveCurrent == IF n > 0 THEN mkpath(path, SelName) ELSE oldpath

\* the rest of an action that reaches begin in normal mode
GoBegin(act, arg, p, f, o, m) ==
    /\ Begin(p, f, o, m, FALSE)
    /\ Note(act, arg, Outcome(p, f))
    /\ idle' = 0 /\ quiet' = 0
    /\ UNCHANGED <<nowtyping, tmp, pc, cfgvars, fsvars>>

\* the rest of an action that ends in goto nochange
GoNoChange(act, arg, res) ==
    /\ NoChange
    /\ Note(act, arg, res)
    /\ rt' = NoRt
    /\ UNCHANGED <<cfgvars, fsvars>>

\* the rest of an action that ends in break or continue: the next redraw()
\* strips the path, the cursor is what the action made it
GoBreak(act, arg, c) ==
    /\ cur' = c
    /\ path' = StripSlashes(path)
    /\ idle' = 0 /\ quiet' = 0
    /\ Note(act, arg, "done")
    /\ rt' = NoRt
    /\ UNCHANGED <<oldpath, fltr, dents, mtimeorder, nowtyping, tmp, pc, cfgvars, fsvars>>

(* ------------------------------------------------------------------ *)
(* The actions of the normal mode                                     *)
(* ------------------------------------------------------------------ *)

\* case SEL_QUIT: path, fltr and the entries are freed and browse() returns
SelQuit ==
    /\ Waiting
    /\ pc' = "exit"
    /\ path' = NULL
    /\ fltr' = NULL
    /\ dents' = <<>>
    /\ idle' = 0 /\ quiet' = 0
    /\ Note("quit", NULL, "done")
    /\ rt' = NoRt
    /\ UNCHANGED <<oldpath, cur, mtimeorder, nowtyping, tmp, cfgvars, fsvars>>

\* no going back from "/" only
NoGoingBackRootOnly == path = <<"/">>

\* there is no going back from "/", "." or a path without a slash
NoGoingBack == path = <<"/">> \/ path = <<".">> \/ ~strchr(path, "/")

\* SEL_BACK without "Save history"
SelBackNoHistory ==
    /\ Waiting
    /\ IF NoGoingBack
       THEN GoNoChange("back", NULL, "noop")
       ELSE IF ~canopendir(xdirname(path))
       THEN GoNoChange("back", NULL, "nochange")
       ELSE /\ GoBegin("back", NULL, xdirname(path), ifilter, oldpath, mtimeorder)
            /\ rt' = IF rt.stage = 1 THEN [rt EXCEPT !.stage = 2] ELSE NoRt

\* case SEL_BACK
SelBack ==
    /\ Waiting
    /\ IF NoGoingBack
       THEN GoNoChange("back", NULL, "noop")
       ELSE IF ~canopendir(xdirname(path))
       THEN GoNoChange("back", NULL, "nochange")
       ELSE /\ GoBegin("back", NULL, xdirname(path), ifilter, path, mtimeorder)
            /\ rt' = IF rt.stage = 1 THEN [rt EXCEPT !.stage = 2] ELSE NoRt

\* case SEL_GOIN
SelGoin ==
    /\ Waiting
    /\ IF n = 0
       THEN GoNoChange("goin", NULL, "noop")
       ELSE LET newpath == mkpath(path, SelName) IN
            IF ~CanOpen(newpath)
            THEN GoNoChange("goin", NULL, "nochange")
            ELSE IF Kind(Resolve(newpath)) = "dir"
            THEN IF ~canopendir(newpath)
                 THEN GoNoChange("goin", NULL, "nochange")
                 ELSE /\ GoBegin("goin", NULL, newpath, ifilter, oldpath, mtimeorder)
                      /\ rt' = [stage |-> 1, P |-> path, D |-> SelName]
            ELSE IF Kind(Resolve(newpath)) = "reg"
            THEN IF openwith(newpath) = NULL
                 THEN GoNoChange("goin", NULL, "noassoc")
                 ELSE GoBreak("goin", NULL, cur)
            ELSE GoNoChange("goin", NULL, "unsupported")

\* SEL_FLTR replacing the filter before it is checked
SelFltrUnchecked(ln) ==
    /\ Waiting
    /\ LET t == IF ln = NULL THEN ifilter ELSE ln IN
       IF setfilter(t) # 0
       THEN /\ fltr' = t
            /\ idle' = 0 /\ quiet' = 0
            /\ Note("fltr", ln, "invalid")
            /\ rt' = NoRt
            /\ UNCHANGED <<path, oldpath, dents, cur, mtimeorder, nowtyping, tmp, pc,
                           cfgvars, fsvars>>
       ELSE /\ GoBegin("fltr", ln, path, t, SaveCurrent, mtimeorder)
            /\ rt' = NoRt

\* case SEL_FLTR, with the line readln() returns (NULL for an empty line)
SelFltr(ln) ==
    /\ Waiting
    /\ LET t == IF ln = NULL THEN ifilter ELSE ln IN
       IF setfilter(t) # 0
       THEN GoNoChange("fltr", ln, "invalid")
       ELSE /\ GoBegin("fltr", ln, path, t, SaveCurrent, mtimeorder)
            /\ rt' = NoRt

\* case SEL_TYPE: the mode opens with an empty string
SelType ==
    /\ Waiting
    /\ nowtyping' = TRUE
    /\ tmp' = NULL
    /\ idle' = 0 /\ quiet' = 0
    /\ Note("type", NULL, "done")
    /\ rt' = NoRt
    /\ UNCHANGED <<path, oldpath, fltr, dents, cur, mtimeorder, pc, cfgvars, fsvars>>

\* case SEL_NEXT
SelNext == Waiting /\ GoBreak("next", NULL, IF cur < n - 1 THEN cur + 1 ELSE cur)

\* case SEL_PREV
SelPrev == Waiting /\ GoBreak("prev", NULL, IF cur > 0 THEN cur - 1 ELSE cur)

\* case SEL_PGDN, on a terminal of LINES rows
SelPgdn(LINES) ==
    /\ Waiting
    /\ GoBreak("pgdn", NULL,
               IF cur < n - 1 THEN cur + MIN((LINES - 4) \div 2, n - 1 - cur) ELSE cur)

\* case SEL_PGUP, on a terminal of LINES rows
SelPgup(LINES) ==
    /\ Waiting
    /\ GoBreak("pgup", NULL, IF cur > 0 THEN cur - MIN((LINES - 4) \div 2, cur) ELSE cur)

\* case SEL_HOME
SelHome == Waiting /\ GoBreak("home", NULL, 0)

\* case SEL_END
SelEnd == Waiting /\ GoBreak("end", NULL, n - 1)

\* SEL_CD taking the empty line for the root
SelCdEmptyIsRoot(ln) ==
    /\ Waiting
    /\ LET l == IF ln = NULL THEN <<"/">> ELSE ln IN
       /\ Len(mkpath(path, l)) <= MaxPath
       /\ IF ~canopendir(mkpath(path, l))
          THEN GoNoChange("cd", ln, "nochange")
          ELSE /\ GoBegin("cd", ln, mkpath(path, l), ifilter, oldpath, mtimeorder)
               /\ rt' = NoRt

\* case SEL_CD, with the line readln() returns
SelCd(ln) ==
    /\ Waiting
    /\ IF ln = NULL
       THEN GoNoChange("cd", ln, "noop")
       ELSE /\ Len(mkpath(path, ln)) <= MaxPath
            /\ IF ~canopendir(mkpath(path, ln))
               THEN GoNoChange("cd", ln, "nochange")
               ELSE /\ GoBegin("cd", ln, mkpath(path, ln), ifilter, oldpath, mtimeorder)
                    /\ rt' = NoRt

\* SEL_CDHOME without "oldpath = path"
SelCdhomeNoHistory(home) ==
    /\ Waiting
    /\ IF home = NULL
       THEN GoNoChange("cdhome", NULL, "nohome")
       ELSE IF ~canopendir(mkpath(path, home))
       THEN GoNoChange("cdhome", home, "nochange")
       ELSE /\ GoBegin("cdhome", home, mkpath(path, home), ifilter, oldpath, mtimeorder)
            /\ rt' = NoRt

\* case SEL_CDHOME, with the value getenv("HOME") returns (NULL when unset)
SelCdhome(home) ==
    /\ Waiting
    /\ IF home = NULL
       THEN GoNoChange("cdhome", NULL, "nohome")
       ELSE IF ~canopendir(mkpath(path, home))
       THEN GoNoChange("cdhome", home, "nochange")
       ELSE /\ GoBegin("cdhome", home, mkpath(path, home), ifilter, path, mtimeorder)
            /\ rt' = NoRt

\* SEL_MTIME without "Save current"
SelMtimeNoSave ==
    /\ Waiting
    /\ GoBegin("mtime", NULL, path, fltr, oldpath, ~mtimeorder)
    /\ rt' = NoRt

\* case SEL_MTIME
SelMtime ==
    /\ Waiting
    /\ GoBegin("mtime", NULL, path, fltr, SaveCurrent, ~mtimeorder)
    /\ rt' = NoRt

\* SEL_REDRAW without "Save current"
SelRedrawNoSave ==
    /\ Waiting
    /\ GoBegin("redraw", NULL, path, fltr, oldpath, mtimeorder)
    /\ rt' = NoRt

\* case SEL_REDRAW
SelRedraw ==
    /\ Waiting
    /\ GoBegin("redraw", NULL, path, fltr, SaveCurrent, mtimeorder)
    /\ rt' = NoRt

\* SEL_RUN ending in "goto begin"
SelRunRepopulates ==
    /\ Waiting
    /\ GoBegin("run", NULL, path, fltr, oldpath, mtimeorder)
    /\ rt' = NoRt

\* case SEL_RUN
SelRun == Waiting /\ GoBreak("run", NULL, cur)

\* case SEL_RUNARG: dents[cur].name is read whatever n and cur are; outside
\* the list the read is undefined: the process dies or goes on with garbage
SelRunarg ==
    /\ Waiting
    /\ IF 0 <= cur /\ cur < n
       THEN GoBreak("runarg", NULL, cur)
       ELSE \/ GoBreak("runarg", NULL, cur)
            \/ /\ pc' = "crash"
               /\ idle' = 0 /\ quiet' = 0
               /\ Note("runarg", NULL, "crash")
               /\ rt' = NoRt
               /\ UNCHANGED <<path, oldpath, fltr, dents, cur, mtimeorder, nowtyping, tmp,
                              cfgvars, fsvars>>

\* SEL_TOGGLEDOT without the comparison with the default filter
SelToggledotAlwaysAll ==
    /\ Waiting
    /\ GoBegin("toggledot", NULL, path, IFilterAll, oldpath, mtimeorder)
    /\ rt' = NoRt

\* case SEL_TOGGLEDOT
SelToggledot ==
    /\ Waiting
    /\ GoBegin("toggledot", NULL, path, IF fltr # ifilter THEN ifilter ELSE IFilterAll,
               oldpath, mtimeorder)
    /\ rt' = NoRt

\* a key no binding names: nextsel() returns 0 and no case runs
KeyUnbound == Waiting /\ GoBreak("nokey", NULL, cur)

\* getch() times out: nextsel() counts it, and the screensaver runs at idletimeout
Tick ==
    /\ Waiting
    /\ idle' = IF idletimeout # 0 /\ idle + 1 = idletimeout THEN 0 ELSE idle + 1
    /\ path' = StripSlashes(path)
    /\ Note("tick", NULL, IF idletimeout # 0 /\ idle + 1 = idletimeout THEN "idle" ELSE "done")
    /\ quiet' = IF idletimeout # 0 /\ idle + 1 = idletimeout THEN 0 ELSE quiet + 1
    /\ UNCHANGED <<oldpath, fltr, dents, cur, mtimeorder, nowtyping, tmp, pc, rt, cfgvars, fsvars>>

(* ------------------------------------------------------------------ *)
(* The filter-as-you-type mode                                        *)
(* ------------------------------------------------------------------ *)

\* strlen of the in-progress string, 0 for NULL
TmpLen == IF tmp = NULL THEN 0 ELSE Len(tmp)

\* readmore() keeping an empty string where the last character is removed
readmoreEmptyString(c) ==
    IF c = "ENTER" THEN tmp
    ELSE IF c = "BS" THEN (IF TmpLen - 1 >= 0 THEN SubSeq(tmp, 1, TmpLen - 1) ELSE NULL)
    ELSE (IF tmp = NULL THEN <<c>> ELSE Append(tmp, c))

\* readmore(): the string after the key c ("ENTER", "BS" or a character)
readmore(c) ==
    IF c = "ENTER" THEN tmp
    ELSE IF c = "BS" THEN (IF TmpLen - 1 > 0 THEN SubSeq(tmp, 1, TmpLen - 1) ELSE NULL)
    ELSE (IF tmp = NULL THEN <<c>> ELSE Append(tmp, c))

\* what the history keeps of a key of the mode
KeyClass(c) == IF c \in { "ENTER", "BS" } THEN <<c>> ELSE <<"CHAR">>

\* the label moretyping: one key of the mode.  Enter closes the mode; a
\* string that does not compile is kept (mode open) or dropped (mode closed)
\* without reaching begin; otherwise the string, or the default filter for
\* the empty string, becomes the filter and the directory is repopulated
TypeKey(c) ==
    /\ pc = "loop"
    /\ nowtyping
    /\ c \in TypeChars => TmpLen < MaxType
    /\ LET t == readmore(c)
           typing == c # "ENTER"
           f == IF t # NULL THEN t ELSE ifilter
       IN  /\ nowtyping' = typing
           /\ tmp' = IF typing THEN t ELSE NULL
           /\ IF t # NULL /\ setfilter(t) # 0
              THEN /\ Note("key", KeyClass(c), "invalid")
                   /\ UNCHANGED <<path, oldpath, fltr, dents, cur, mtimeorder>>
              ELSE /\ Begin(path, f, SaveCurrent, mtimeorder, typing)
                   /\ Note("key", KeyClass(c), Outcome(path, f))
    /\ rt' = NoRt
    /\ quiet' = 0
    /\ UNCHANGED <<idle, pc, cfgvars, fsvars>>

(* ------------------------------------------------------------------ *)
(* The environment                                                    *)
(* ------------------------------------------------------------------ *)

\* a directory loses or regains its read permission while the loop waits
Chmod(d) ==
    /\ pc = "loop"
    /\ unreadable' = IF d \in unreadable THEN unreadable \ {d} ELSE unreadable \cup {d}
    /\ Note("env", NULL, "done")
    /\ UNCHANGED <<path, oldpath, fltr, dents, cur, mtimeorder, nowtyping, tmp, idle, pc,
                   cfgvars, gone, rt, quiet>>

\* a node is removed or created again while the loop waits
Toggle(d) ==
    /\ pc = "loop"
    /\ gone' = IF d \in gone THEN gone \ {d} ELSE gone \cup {d}
    /\ Note("env", NULL, "done")
    /\ UNCHANGED <<path, oldpath, fltr, dents, cur, mtimeorder, nowtyping, tmp, idle, pc,
                   cfgvars, unreadable, rt, quiet>>

Next ==
    \/ BrowseStart
    \/ SelQuit
    \/ SelBack
    \/ SelGoin
    \/ \E ln \in FilterInputs : SelFltr(ln)
    \/ SelType
    \/ \E c \in TypeChars \cup { "ENTER", "BS" } : TypeKey(c)
    \/ SelNext
    \/ SelPrev
    \/ \E h \in Heights : SelPgdn(h)
    \/ \E h \in Heights : SelPgup(h)
    \/ SelHome
    \/ SelEnd
    \/ \E ln \in CdInputs : SelCd(ln)
    \/ \E h \in Homes : SelCdhome(h)
    \/ SelMtime
    \/ SelRedraw
    \/ SelRun
    \/ SelRunarg
    \/ SelToggledot
    \/ KeyUnbound
    \/ Tick
    \/ \E d \in ChmodDirs : Chmod(d)
    \/ \E d \in Volatile : Toggle(d)

Spec == Init /\ [][Next]_vars

(* ------------------------------------------------------------------ *)
(* Properties                                                         *)
(* ------------------------------------------------------------------ *)

\* the cursor is a valid index of the list, 0 for the empty list
CurValid == IF n > 0 THEN 0 <= cur /\ cur < n ELSE cur = 0

\* the name under the cursor, NULL when the cursor is on no entry
SelNameOrNull == IF 0 <= cur /\ cur < n THEN SelName ELSE NULL

\* the names of the list
ListedNames == { dents[i].name : i \in 1..n }

\* the list is a listing of the current directory as the filesystem is now
Fresh == CanPopulate(path, fltr) /\ { dents[i] : i \in 1..n } = dentfill(path, fltr)

\* C1: right after every successful repopulation the cursor is a valid index
\* of the new list when it is non-empty and 0 when it is empty
C1_CursorValidAfterPopulate == last.res = "populated" => CurValid

\* C1 witness: a repopulation found the cursor from the history, below the top
C1_Witness == last.res = "populated" /\ n > 1 /\ cur > 0

MoveActs == { "next", "prev", "pgdn", "pgup", "home", "end" }

\* C2 (as claimed): after a cursor movement the cursor is in [0, n-1] when the
\* list is non-empty and is 0 when the list is empty
C2_MovesKeepCursorClamped == last.act \in MoveActs => CurValid

\* C3: a descent into directory D of P directly followed by an ascent leaves
\* the path P and, if D still exists in P and passes the filter active after
\* the ascent, the cursor on D
C3_RoundTrip ==
    (rt.stage = 2 /\ last.act = "back") =>
        /\ path = rt.P
        /\ (rt.D \in readdir(Resolve(rt.P)) /\ visible(fltr, rt.D)) => SelNameOrNull = rt.D

\* C3 witness: the round trip put the cursor back on D, which is not the top entry
C3_Witness ==
    rt.stage = 2 /\ last.act = "back" /\ path = rt.P /\ cur > 0 /\ SelNameOrNull = rt.D

\* C4: a force redraw of a list that is a listing of the filesystem as it is
\* leaves the path, the filter and the name under the cursor as they were
\* (and an empty list empty)
C4_RedrawIdempotent ==
    [][(last'.act = "redraw" /\ Fresh) =>
         /\ path' = path
         /\ fltr' = fltr
         /\ SelNameOrNull' = SelNameOrNull
         /\ (n = 0) = (n' = 0)]_vars

\* C4 witness: a force redraw repopulated and the cursor is below the top
C4_Witness == last.act = "redraw" /\ last.res = "populated" /\ Fresh /\ cur > 0

\* C5: an attempt to set a pattern that does not compile leaves the filter,
\* the list and the cursor as they were, and the active filter compiles in
\* every state of the loop
C5_InvalidPatternKeepsFilter ==
    [][/\ last'.res = "invalid" => (fltr' = fltr /\ dents' = dents /\ cur' = cur)
       /\ pc = "loop" => setfilter(fltr) = 0
       /\ pc' = "loop" => setfilter(fltr') = 0]_vars

\* C5 witness: a pattern was rejected while a filter set by the user is active
C5_Witness == last.res = "invalid" /\ fltr # ifilter /\ fltr # IFilterAll /\ n > 0

\* C6 (as claimed): whenever the loop waits, every listed name matches the
\* active filter and none is the self or parent entry
C6_ListMatchesFilter ==
    pc = "loop" =>
        \A i \in 1..n :
            /\ visible(fltr, dents[i].name)
            /\ dents[i].name \notin { <<".">>, <<".", ".">> }

RecoverableErrors == { "nochange", "popfail", "invalid", "noassoc", "unsupported", "nohome" }

\* C7 (as claimed): an action that runs into a recoverable error leaves path,
\* filter, list and cursor as they were and the loop goes on
C7_ErrorDiscardsTransition ==
    [][last'.res \in RecoverableErrors =>
         /\ path' = path
         /\ fltr' = fltr
         /\ dents' = dents
         /\ cur' = cur
         /\ pc' = "loop"]_vars

\* C8 (as claimed): after every successful repopulation the list is in the
\* order of the active comparator: names strictly ascending byte-wise under
\* name order, modification times descending under time order
C8_ListSorted ==
    last.res = "populated" =>
        \A i, j \in 1..n :
            i < j => IF mtimeorder THEN dents[i].t >= dents[j].t
                              ELSE strcmp(dents[i].name, dents[j].name) < 0

\* C9 (as claimed): empty input at the Set-filter or the Change-directory
\* prompt leaves the path and the filter as they were
C9_EmptyInputChangesNothing ==
    [][(last'.act \in { "fltr", "cd" } /\ last'.arg = NULL) =>
         (path' = path /\ fltr' = fltr)]_vars

\* C9 (amended): empty input at the Change-directory prompt leaves path and
\* filter as they were; empty input at the Set-filter prompt leaves the path
\* as it was and makes the default filter the active filter
C9_EmptyInputAmended ==
    [][/\ (last'.act = "cd" /\ last'.arg = NULL) => (path' = path /\ fltr' = fltr)
       /\ (last'.act = "fltr" /\ last'.arg = NULL) => (path' = path /\ fltr' = ifilter)]_vars

\* C9 witness: an empty line at the Set-filter prompt put the default filter
\* back and the repopulation found the cursor below the top
C9_Witness ==
    last.act = "fltr" /\ last.arg = NULL /\ last.res = "populated" /\ fltr = ifilter /\ cur > 0

\* C10: after a successful Set filter, a successful key of the typing mode or
\* a Toggle sort order the cursor is on the entry selected before if it is
\* in the new list, and is 0 otherwise
C10_SelectionPreserved ==
    [][(last'.act \in { "fltr", "key", "mtime" } /\ last'.res = "populated") =>
         IF SelNameOrNull # NULL /\ SelNameOrNull \in ListedNames'
         THEN SelNameOrNull' = SelNameOrNull
         ELSE cur' = 0]_vars

\* C10 witness: the sort order was toggled and the cursor followed its entry
\* away from the top
C10_Witness == last.act = "mtime" /\ last.res = "populated" /\ cur > 0

\* the names of the directory the path names, self and parent left out
AllNames(p) == readdir(Resolve(p)) \ { <<".">>, <<".", ".">> }

\* C11: Toggle dotfile visibility makes the show-everything filter the active
\* filter when the active filter is the default filter, and the default
\* filter otherwise; a repopulation under the default filter of an
\* unprivileged run lists no name that begins with ".", and the repopulation
\* of a toggle to the show-everything filter lists every entry of the
\* directory, in byte order of the names under name order
C11_ToggleDot ==
    [][/\ last'.act = "toggledot" =>
            fltr' = IF fltr = ifilter THEN IFilterAll ELSE ifilter
       /\ (last'.res = "populated" /\ fltr' = IFilterUser) =>
            \A i \in 1..n' : dents'[i].name[1] # "."
       /\ (last'.act = "toggledot" /\ last'.res = "populated" /\ fltr' = IFilterAll) =>
            /\ ListedNames' = AllNames(path')
            /\ ~mtimeorder' =>
                  \A i, j \in 1..n' : i < j => strcmp(dents'[i].name, dents'[j].name) < 0]_vars

\* C11 witness: a toggle listed a directory with its dotfile, three entries
\* in all with the dotfile first
C11_Witness ==
    /\ last.act = "toggledot" /\ last.res = "populated" /\ fltr = IFilterAll
    /\ n = 3 /\ dents[1].name[1] = "." /\ ~mtimeorder

\* C12: Ascend from "/", from "." or from a path without a separator leaves
\* path, filter, list, cursor and history slot as they were, and nothing is
\* repopulated
C12_AscendNoop ==
    [][(last'.act = "back" /\ (path = <<"/">> \/ path = <<".">> \/ ~strchr(path, "/"))) =>
         /\ last'.res = "noop"
         /\ UNCHANGED <<path, fltr, dents, cur, oldpath>>]_vars

\* C12 witness: Ascend was a no-op on a path without a separator other than
\* ".", under a filter other than the default
C12_Witness ==
    /\ last.act = "back" /\ last.res = "noop"
    /\ ~strchr(path, "/") /\ path # <<".">>
    /\ fltr # ifilter

\* C13 (as claimed): whenever the loop waits for input the history slot is
\* absent, so no repopulation finds the cursor from a value an earlier
\* action wrote
C13_HistoryAbsentAtWait == pc = "loop" => oldpath = NULL

\* C14 (as claimed): after a successful Descend into a directory, a
\* successful Change-directory or a successful Toggle dotfile visibility the
\* cursor is 0, and after the first two the filter is the default filter
C14_NoHistoryResetsCursor ==
    [][(last'.act \in { "goin", "cd", "toggledot" } /\ last'.res = "populated") =>
         /\ cur' = 0
         /\ last'.act \in { "goin", "cd" } => fltr' = ifilter]_vars

\* C15: a successful Jump home from path P makes the home location the path
\* and the default filter the filter, and puts the cursor on the listed entry
\* whose joined path is P if there is one and on 0 otherwise; with HOME
\* unset or a home that does not open, path, filter, list, cursor and
\* history slot stay as they were
C15_JumpHome ==
    [][last'.act = "cdhome" =>
         IF last'.res = "populated"
         THEN /\ path' = StripSlashes(last'.arg)
              /\ fltr' = ifilter
              /\ IF \E i \in 1..n' : mkpath(path', dents'[i].name) = path
                 THEN mkpath(path', SelNameOrNull') = path
                 ELSE cur' = 0
         ELSE UNCHANGED <<path, fltr, dents, cur, oldpath>>]_vars

\* C15 witness: Jump home from a child of home put the cursor on that child,
\* below the top
C15_Witness ==
    /\ last.act = "cdhome" /\ last.res = "populated"
    /\ path = last.arg /\ cur > 0

\* the step is a Descend on an empty list or on an entry that opens and is
\* no directory
GoinStays ==
    /\ last'.act = "goin"
    /\ \/ n = 0
       \/ /\ CanOpen(mkpath(path, SelName))
          /\ Kind(Resolve(mkpath(path, SelName))) # "dir"

\* C16: the cursor movements, Run program, Run program with the selected
\* name, a Descend on a regular file, on an unsupported kind or on an empty
\* list, and the idle action leave path, filter, list and history slot as
\* they were without repopulating, and all but the movements leave the cursor
C16_NonNavigationFrame ==
    [][(\/ last'.act \in MoveActs \cup { "run", "runarg" }
        \/ GoinStays
        \/ (last'.act = "tick" /\ last'.res = "idle")) =>
         /\ UNCHANGED <<path, fltr, dents, oldpath>>
         /\ last'.res \notin { "populated", "popfail" }
         /\ last'.act \notin MoveActs => cur' = cur]_vars

\* C16 witness: a Descend on a regular file with an association ran its
\* program while the cursor was below the top
C16_Witness == last.act = "goin" /\ last.res = "done" /\ cur > 0 /\ fltr # ifilter

\* the in-progress string a key of the typing mode was checked with: the
\* string the mode keeps, or the one it had when Enter closed it
Typed == IF last'.arg = <<"ENTER">> THEN tmp ELSE tmp'

\* C17: while the typing mode is open every step of the program is a key of
\* the mode, and only Enter closes it; a character extends the in-progress
\* string by one and a backspace shortens it by one (to nothing at the
\* end); a string that does not compile leaves filter, list and cursor as
\* they were and reaches no repopulation; any other string becomes the
\* active filter (the default filter for no string) and the directory is
\* repopulated, the list being its listing under that filter if it opens
C17_TypingMode ==
    [][(nowtyping /\ last'.act # "env") =>
         /\ last'.act = "key"
         /\ nowtyping' = (last'.arg # <<"ENTER">>)
         /\ last'.arg = <<"CHAR">> =>
               /\ tmp' # NULL
               /\ Len(tmp') = TmpLen + 1
               /\ SubSeq(tmp', 1, TmpLen) = (IF tmp = NULL THEN <<>> ELSE tmp)
         /\ last'.arg = <<"BS">> =>
               tmp' = IF TmpLen > 1 THEN SubSeq(tmp, 1, TmpLen - 1) ELSE NULL
         /\ IF Typed # NULL /\ setfilter(Typed) # 0
            THEN /\ last'.res = "invalid"
                 /\ UNCHANGED <<path, fltr, dents, cur>>
            ELSE /\ last'.res \in { "populated", "popfail" }
                 /\ fltr' = IF Typed = NULL THEN ifilter ELSE Typed
                 /\ CanPopulate(path, fltr') =>
                       /\ last'.res = "populated"
                       /\ { dents'[i] : i \in 1..n' } = dentfill(path, fltr')]_vars

\* C17 witness: a backspace emptied the in-progress string of the open mode,
\* which put the default filter back in place of a typed one
C17_Witness ==
    /\ last.act = "key" /\ last.arg = <<"BS">> /\ last.res = "populated"
    /\ nowtyping /\ tmp = NULL /\ fltr = ifilter /\ n > 1

\* C18: idlecmd runs at exactly the input timeout that is the idletimeout-th
\* in a row since the last key or the last run, and that step sets the
\* counter to 0 and changes nothing of the browse state; every key leaves
\* the counter at 0; the counter is in [0, idletimeout - 1] whenever the
\* loop waits
C18_IdleDetection ==
    [][/\ last'.act = "tick" =>
            /\ (last'.res = "idle") = (quiet + 1 = idletimeout)
            /\ last'.res = "idle" =>
                  /\ idle' = 0
                  /\ UNCHANGED <<path, oldpath, fltr, dents, cur, mtimeorder, nowtyping>>
            /\ last'.res # "idle" => idle' = idle + 1
       /\ last'.act \notin { "tick", "env" } => idle' = 0
       /\ pc' = "loop" => (0 <= idle' /\ idle' <= idletimeout - 1)]_vars

\* C18 witness: idlecmd ran on a list with the cursor below the top
C18_Witness == last.act = "tick" /\ last.res = "idle" /\ idle = 0 /\ cur > 0

\* the actions that read dents[cur]
ReadsSelected ==
    \/ last'.act = "runarg"
    \/ last'.act = "goin" /\ n # 0
    \/ last'.act \in { "fltr", "key", "mtime", "redraw" } /\ last'.res # "invalid" /\ n > 0

\* C19 (as claimed): every action that reads the entry under the cursor
\* runs on a non-empty list with 0 <= cur < n, and the loop goes on
C19_ReadsInsideList ==
    [][ReadsSelected => (n > 0 /\ 0 <= cur /\ cur < n /\ pc' = "loop")]_vars

\* C20 (as claimed): on any two entries of a list repopulated under time
\* order, entrycmp is negative when the first is the newer, positive when it
\* is the older, and zero when the times are equal
C20_TimeOrderSign ==
    (last.res = "populated" /\ mtimeorder) =>
        \A i, j \in 1..n :
            LET r == entrycmp(dents[i], dents[j], TRUE) IN
            /\ dents[i].t > dents[j].t => r < 0
            /\ dents[i].t < dents[j].t => r > 0
            /\ dents[i].t = dents[j].t => r = 0

====
